---- MODULE Spec2Model ----
(***************************************************************************)
(* dcs-rich-presence (src/src/main.rs): a UDP telemetry listener feeding   *)
(* an iced application whose State::update drives a Discord rich-presence  *)
(* client.                                                                 *)
(*                                                                         *)
(* Text is modelled by TLA+ strings, read character by character with      *)
(* SubSeq.  A datagram payload is a string of byte symbols: every ASCII    *)
(* character stands for its own byte, and three symbols stand for bytes    *)
(* above 0x7F (see ByteFF, ByteLead, ByteCont).  An f64 is modelled by an  *)
(* integer counting ten-thousandths (Scale), which is exact for every      *)
(* numeral the model feeds to the parser.                                  *)
(***************************************************************************)
EXTENDS Integers, Sequences, FiniteSets, TLC

(***************************************************************************)
(* Option<T>                                                               *)
(***************************************************************************)
None(dflt) == [some |-> FALSE, val |-> dflt]
Some(v) == [some |-> TRUE, val |-> v]

NoneStr == None("")
NoneNum == None(0)

(***************************************************************************)
(* Strings                                                                 *)
(***************************************************************************)
CharAt(s, i) == SubSeq(s, i, i)

\* Index of the first occurrence of the one-character string c in s at or
\* after position i, 0 when there is none.
RECURSIVE FindFrom(_, _, _)
FindFrom(s, c, i) ==
    IF i > Len(s) THEN 0
    ELSE IF CharAt(s, i) = c THEN i
    ELSE FindFrom(s, c, i + 1)

\* str::split_once(' '): the text before and after the first delimiter.
SplitOnce(s, c) ==
    LET i == FindFrom(s, c, 1)
    IN  IF i = 0 THEN [some |-> FALSE, cmd |-> "", rest |-> ""]
        ELSE [some |-> TRUE,
              cmd  |-> SubSeq(s, 1, i - 1),
              rest |-> SubSeq(s, i + 1, Len(s))]

\* str::split(','): always at least one part, empty parts kept.
RECURSIVE Split(_, _)
Split(s, c) ==
    LET i == FindFrom(s, c, 1)
    IN  IF i = 0 THEN <<s>>
        ELSE <<SubSeq(s, 1, i - 1)>> \o Split(SubSeq(s, i + 1, Len(s)), c)

Digits == "0123456789"

IsDigit(c) == FindFrom(Digits, c, 1) # 0

DigitVal(c) == FindFrom(Digits, c, 1) - 1

RECURSIVE AllDigits(_)
AllDigits(s) ==
    IF Len(s) = 0 THEN TRUE
    ELSE IsDigit(CharAt(s, 1)) /\ AllDigits(SubSeq(s, 2, Len(s)))

\* Value of a string of decimal digits (0 for the empty string).
RECURSIVE DigitsVal(_)
DigitsVal(s) ==
    IF Len(s) = 0 THEN 0
    ELSE 10 * DigitsVal(SubSeq(s, 1, Len(s) - 1)) + DigitVal(CharAt(s, Len(s)))

\* Decimal numeral of a natural number.
RECURSIVE NatToStr(_)
NatToStr(n) ==
    IF n < 10 THEN CharAt(Digits, n + 1)
    ELSE NatToStr(n \div 10) \o CharAt(Digits, (n % 10) + 1)

\* n written with at least w digits, zero-padded on the left.
RECURSIVE ZeroPad(_, _)
ZeroPad(s, w) == IF Len(s) >= w THEN s ELSE ZeroPad("0" \o s, w)

UpperCase == "ABCDEFGHIJKLMNOPQRSTUVWXYZ"
LowerCase == "abcdefghijklmnopqrstuvwxyz"

\* str::to_lowercase on the ASCII range.
RECURSIVE ToLowercase(_)
ToLowercase(s) ==
    IF Len(s) = 0 THEN ""
    ELSE LET c == CharAt(s, 1)
             i == FindFrom(UpperCase, c, 1)
         IN  (IF i = 0 THEN c ELSE CharAt(LowerCase, i))
             \o ToLowercase(SubSeq(s, 2, Len(s)))

(***************************************************************************)
(* Numbers.  An f64 is the integer number of 10^-FracDigits units.         *)
(***************************************************************************)
FracDigits == 4

RECURSIVE Pow10(_)
Pow10(n) == IF n = 0 THEN 1 ELSE 10 * Pow10(n - 1)

Scale == Pow10(FracDigits)

\* s cut or zero-padded on the right to exactly w characters.
RECURSIVE RightPad(_, _)
RightPad(s, w) ==
    IF Len(s) >= w THEN SubSeq(s, 1, w) ELSE RightPad(s \o "0", w)

\* <f64 as FromStr>::from_str on plain decimal numerals: an optional sign,
\* digits, an optional point and digits, at least one digit in all.  No
\* surrounding white space is accepted.  (Exponents and the inf/nan words,
\* which the parser also accepts, use letters no numeric token of the model
\* is made of.)  Fraction digits past FracDigits are cut.
ParseF64(tok) ==
    LET first  == IF Len(tok) = 0 THEN "" ELSE CharAt(tok, 1)
        signed == first = "-" \/ first = "+"
        body   == IF signed THEN SubSeq(tok, 2, Len(tok)) ELSE tok
        dot    == FindFrom(body, ".", 1)
        ip     == IF dot = 0 THEN body ELSE SubSeq(body, 1, dot - 1)
        fp     == IF dot = 0 THEN "" ELSE SubSeq(body, dot + 1, Len(body))
        mag    == DigitsVal(ip) * Scale + DigitsVal(RightPad(fp, FracDigits))
    IN  IF AllDigits(ip) /\ AllDigits(fp) /\ Len(ip) + Len(fp) > 0
        THEN Some(IF first = "-" THEN 0 - mag ELSE mag)
        ELSE NoneNum

\* <u64 as FromStr>::from_str: an optional '+', then at least one digit; a
\* '-' is an invalid digit.
ParseU64(tok) ==
    LET first == IF Len(tok) = 0 THEN "" ELSE CharAt(tok, 1)
        body  == IF first = "+" THEN SubSeq(tok, 2, Len(tok)) ELSE tok
    IN  IF Len(body) > 0 /\ AllDigits(body)
        THEN Some(DigitsVal(body))
        ELSE NoneNum

\* Lua string.format("%f", x): six digits after the point.
FormatF(x) ==
    LET mag == IF x < 0 THEN 0 - x ELSE x
    IN  (IF x < 0 THEN "-" ELSE "")
        \o NatToStr(mag \div Scale) \o "."
        \o RightPad(ZeroPad(NatToStr(mag % Scale), FracDigits), 6)

\* Lua string.format("%d", n) of a non-negative simulation time.
FormatD(n) == NatToStr(n)

(***************************************************************************)
(* Bytes of a datagram.  ByteFF is the byte 0xFF, which no UTF-8 text      *)
(* holds; ByteLead ByteCont are 0xC3 0xA9, the two-byte encoding of one    *)
(* character.                                                              *)
(***************************************************************************)
ByteFF == "^"
ByteLead == "{"
ByteCont == "}"

\* str::from_utf8(..).is_ok()
RECURSIVE Utf8Valid(_)
Utf8Valid(bytes) ==
    IF Len(bytes) = 0 THEN TRUE
    ELSE LET b == CharAt(bytes, 1)
         IN  IF b = ByteFF \/ b = ByteCont THEN FALSE
             ELSE IF b = ByteLead
                  THEN /\ Len(bytes) >= 2
                       /\ CharAt(bytes, 2) = ByteCont
                       /\ Utf8Valid(SubSeq(bytes, 3, Len(bytes)))
                  ELSE Utf8Valid(SubSeq(bytes, 2, Len(bytes)))

(***************************************************************************)
(* Telemetry and Message                                                   *)
(***************************************************************************)
Telemetry(name, vehicle, ias, alt_bar, t) ==
    [name |-> name, vehicle |-> vehicle, ias |-> ias, alt_bar |-> alt_bar,
     t |-> t]

NoTelemetry == Telemetry("", "", 0, 0, 0)

\* Placeholder where no message is held.
NoMessage == [type |-> "", text |-> "", telem |-> NoTelemetry]

CallsignChanged(text) ==
    [type |-> "CallsignChanged", text |-> text, telem |-> NoTelemetry]
ClientDisconnected ==
    [type |-> "ClientDisconnected", text |-> "", telem |-> NoTelemetry]
CloseRequested ==
    [type |-> "CloseRequested", text |-> "", telem |-> NoTelemetry]
Connect ==
    [type |-> "Connect", text |-> "", telem |-> NoTelemetry]
TelemetryReceived(telem) ==
    [type |-> "TelemetryReceived", text |-> "", telem |-> telem]

\* The hook's sendTelemetry: "telem %s,%s,%f,%f,%d".
FormatTelem(tm) ==
    "telem " \o tm.name \o "," \o tm.vehicle \o "," \o FormatF(tm.ias)
    \o "," \o FormatF(tm.alt_bar) \o "," \o FormatD(tm.t)

(***************************************************************************)
(* The listener's decoding of one datagram (the body of its loop).         *)
(* The outcome is "emit" (one message handed to sender.send), "ignore"     *)
(* (continue with the next datagram) or "panic" (an unwrap or an index out *)
(* of bounds unwinds the listener task).                                   *)
(***************************************************************************)
Emit(msg) == [kind |-> "emit", msg |-> msg]
Ignore == [kind |-> "ignore", msg |-> NoMessage]
Panic == [kind |-> "panic", msg |-> NoMessage]

\* Variant: the line is compared with its terminator.
IsByeWithNewline(line) == line = "bye\n"

IsBye(line) == line = "bye"

\* Variant: the two f64 fields are read from each other's position.
ParseTelemSwapped(rest) ==
    LET parts == Split(rest, ",")
    IN  IF Len(parts) < 5 THEN Panic
        ELSE LET ias == ParseF64(parts[4])
                 alt == ParseF64(parts[3])
                 t   == ParseU64(parts[5])
             IN  IF ias.some /\ alt.some /\ t.some
                 THEN Emit(TelemetryReceived(
                          Telemetry(parts[1], parts[2], ias.val, alt.val,
                                    t.val)))
                 ELSE Panic

\* Telemetry { name: parts[0].., vehicle: parts[1].., ias: parts[2].parse()
\* .unwrap(), alt_bar: parts[3].parse().unwrap(), _t: parts[4].parse()
\* .unwrap() }: indexing past the end and a failed parse both panic; parts
\* beyond the fifth are not read.
ParseTelem(rest) ==
    LET parts == Split(rest, ",")
    IN  IF Len(parts) < 5 THEN Panic
        ELSE LET ias == ParseF64(parts[3])
                 alt == ParseF64(parts[4])
                 t   == ParseU64(parts[5])
             IN  IF ias.some /\ alt.some /\ t.some
                 THEN Emit(TelemetryReceived(
                          Telemetry(parts[1], parts[2], ias.val, alt.val,
                                    t.val)))
                 ELSE Panic

\* Variant: a line without a space is taken for a broken one and unwrapped.
DecodeLineStrict(line) ==
    IF IsBye(line) THEN Emit(ClientDisconnected)
    ELSE LET sp == SplitOnce(line, " ")
         IN  IF ~sp.some THEN Panic
             ELSE IF sp.cmd = "telem" THEN ParseTelem(sp.rest)
             ELSE Ignore

\* "bye", then split_once(' ') (no space: warn and continue), then the
\* "telem" command; any other command falls through to the next pass.
DecodeLine(line) ==
    IF IsBye(line) THEN Emit(ClientDisconnected)
    ELSE LET sp == SplitOnce(line, " ")
         IN  IF ~sp.some THEN Ignore
             ELSE IF sp.cmd = "telem" THEN ParseTelem(sp.rest)
             ELSE Ignore

DecodeDatagram(bytes) ==
    IF ~Utf8Valid(bytes) THEN Panic ELSE DecodeLine(bytes)

(***************************************************************************)
(* Presentation of a sample (State::update, TelemetryReceived arm)         *)
(***************************************************************************)
\* VEHICLE_NAMES.get(&telem.vehicle)...unwrap_or(telem.vehicle.clone())
VehiclePretty(vehicle) ==
    IF vehicle = "A-10C_2" THEN "A10-C"
    ELSE IF vehicle = "F-16C_50" THEN "F-16CM bl.50"
    ELSE vehicle

\* floor(a * m / d) without forming a * m.
MulDiv(a, m, d) == (a \div d) * m + ((a % d) * m) \div d

\* Variant: the threshold itself counts as moving.
SpeedInclusive(ias) ==
    IF ias >= 10 * Scale THEN MulDiv(ias, 1994, 1000) ELSE 0

\* if telem.ias > 10.0 { telem.ias * 1.994 } else { 0.0 }
Speed(ias) == IF ias > 10 * Scale THEN MulDiv(ias, 1994, 1000) ELSE 0

\* (telem.alt_bar * 3.281) / 1000.0
Alt(alt_bar) == MulDiv(alt_bar, 3281, 1000) \div 1000

\* format!("{x:.0}"): the nearest integer, a tie going to the even one; a
\* negative value keeps its sign.
FormatRounded(x) ==
    LET mag  == IF x < 0 THEN 0 - x ELSE x
        q    == mag \div Scale
        r2   == 2 * (mag % Scale)
        n    == IF r2 > Scale \/ (r2 = Scale /\ q % 2 = 1) THEN q + 1 ELSE q
    IN  (IF x < 0 THEN "-" ELSE "") \o NatToStr(n)

\* Variant: no name is treated as a sentinel.
HeadlineNoSentinel(name, vehicle_pretty) == name \o " in " \o vehicle_pretty

\* if name == "New callsign" { format!("flying {vehicle_pretty}") }
\* else { format!("{name} in {vehicle_pretty}") }
Headline(name, vehicle_pretty) ==
    IF name = "New callsign"
    THEN "flying " \o vehicle_pretty
    ELSE name \o " in " \o vehicle_pretty

Details(telem) ==
    FormatRounded(Speed(telem.ias)) \o " knots at "
    \o FormatRounded(Alt(telem.alt_bar)) \o "k feet"

\* Variant: the pilot's name is shown whatever the callsign.
DisplayNamePilot(cs, telem) == telem.name

\* self.callsign.as_deref().unwrap_or(&telem.name)
DisplayName(cs, telem) == IF cs.some THEN cs.val ELSE telem.name

Activity(state, details, small_image, small_text, start) ==
    [state |-> state, details |-> details, small_image |-> small_image,
     small_text |-> small_text, start |-> start]

idle_activity(start) ==
    Activity(Some("Mission planning"), NoneStr, NoneStr, NoneStr, start)

telem_activity(cs, telem, start) ==
    Activity(Some(Headline(DisplayName(cs, telem),
                           VehiclePretty(telem.vehicle))),
             Some(Details(telem)),
             Some(ToLowercase(telem.vehicle)),
             Some(VehiclePretty(telem.vehicle)),
             start)

NoActivity == Activity(NoneStr, NoneStr, NoneStr, NoneStr, 0)

\* Variant: the empty text is stored like any other.
NormalizeCallsignKeepEmpty(text) == Some(text)

\* if callsign.is_empty() { None } else { Some(callsign) }
NormalizeCallsign(text) == IF Len(text) = 0 THEN NoneStr ELSE Some(text)

(***************************************************************************)
(* Bounds and inputs                                                       *)
(***************************************************************************)
MaxDatagrams == 3

\* Datagrams received in a burst that outruns the application.
MaxBurst == 34

\* stream::channel(32, ..)
ChannelBuffer == 32

\* Samples the simulator's hook reports (f64 values in units of 1/Scale).
HookSamples ==
    { Telemetry("Maverick", "F-16C_50", 250 * Scale, 3000 * Scale, 120),
      Telemetry("Pilot", "UnknownJet", 5 * Scale, 0, 0),
      Telemetry("New callsign", "A-10C_2", 10 * Scale + 1, 1500 * Scale, 15) }

\* "telem" lines with fewer than five fields or a field that is no number.
MalformedTelem ==
    { "telem a,b", "telem a,b,1.0,2.0", "telem a,b,x,2.0,3",
      "telem a,b,1.0,2.0,-3" }

\* Payloads that are not UTF-8.
NonUtf8 == { "^", "telem a}b,c,1.0,2.0,3" }

\* Lines with no space, or with another first token.
OtherLines == { "", "hello", "ping 1", "bye " }

Datagrams ==
    {"bye"} \cup {FormatTelem(tm) : tm \in HookSamples}
    \cup MalformedTelem \cup NonUtf8 \cup OtherLines

CallsignTexts == { "", "Viper", "New callsign" }

\* Indicated airspeeds around the threshold of 10.0: 10 * Scale + 1 is the
\* least value above it.
IasInputs ==
    { 0, 5 * Scale, 10 * Scale - 1, 10 * Scale, 10 * Scale + 1, 11 * Scale,
      250 * Scale }

SpeedSamples ==
    { Telemetry("Maverick", "F-16C_50", ias, 0, 0) : ias \in IasInputs }

SpeedDatagrams == { FormatTelem(tm) : tm \in SpeedSamples }

\* The listener's outcome for each payload.
Decoded ==
    [bytes \in Datagrams \cup SpeedDatagrams |-> DecodeDatagram(bytes)]

(***************************************************************************)
(* State                                                                   *)
(***************************************************************************)
VARIABLES
    connected,    \* State.connected
    last_update,  \* State.last_update
    callsign,     \* State.callsign
    link,         \* State.drpc: "new", "open" or "closed"
    T_START,      \* the LazyLock: None until first dereferenced
    now,          \* the wall clock at the latest reading of it
    spc,          \* the thread running State::update: "run" or "panicked"
    connectSent,  \* Task::done(Message::Connect) has been delivered
    closeSent,    \* the window's close event has been delivered
    issued,       \* the drpc calls made by the latest update, in order
    lastMsg,      \* the message the latest update handled
    lastSeq,      \* arrival number of the latest listener message handled
    lpc,          \* the listener task: "bind", "recv", "send", "panicked"
    pending,      \* the message the listener is sending
    chan,         \* the channel from the listener to the application
    nRecv,        \* number of datagrams received so far
    lastDgram,    \* payload of the latest datagram received
    emitted       \* messages sent to the channel for the latest datagram

smVars == <<connected, last_update, callsign, link, T_START, spc,
            connectSent, closeSent, issued, lastMsg, lastSeq, now>>
lsVars == <<lpc, pending, nRecv, lastDgram, emitted>>
vars == <<smVars, lsVars, chan>>

\* State::new, and the runtime before anything has run.
Init ==
    /\ connected = FALSE
    /\ last_update = NoneNum
    /\ callsign = NoneStr
    /\ link = "new"
    /\ T_START = NoneNum
    /\ now = 0
    /\ spc = "run"
    /\ connectSent = FALSE
    /\ closeSent = FALSE
    /\ issued = <<>>
    /\ lastMsg = NoMessage
    /\ lastSeq = 0
    /\ lpc = "bind"
    /\ pending = NoMessage
    /\ chan = <<>>
    /\ nRecv = 0
    /\ lastDgram = ""
    /\ emitted = <<>>

(***************************************************************************)
(* The presence client (DiscordIpcClient).  Each call returns Ok or Err;   *)
(* r is the outcome the environment allows (Discord running, the pipe      *)
(* writable).  set_activity and close need an open link.                   *)
(***************************************************************************)
Cmd(op, activity, ok) == [op |-> op, activity |-> activity, ok |-> ok]

ConnectOk(r) == r
SetActivityOk(lnk, r) == lnk = "open" /\ r
CloseOk(lnk, r) == lnk = "open" /\ r

\* *T_START: the LazyLock takes the time of its first dereference.
\* Variant: the clock is read again at every use.
DerefFresh(tstart, t) == Some(t)

Deref(tstart, t) == IF tstart.some THEN tstart ELSE Some(t)

\* SystemTime::now(), OffsetDateTime::now_local(): the clock read now, no
\* earlier than its latest reading.  Both reads are taken to succeed, as
\* they do on Windows, the platform the program is built for.
ClockReadings == {now, now + 1}

(***************************************************************************)
(* State::update, one operator per match arm.  A failed call is unwrapped: *)
(* the thread panics and the arm's remaining statements do not run.        *)
(***************************************************************************)
\* Variant: connected is set as soon as the link is up, before the Idle
\* payload is published.
UpdateConnectEager(t, r1, r2) ==
    LET ok1   == ConnectOk(r1)
        lnk1  == IF ok1 THEN "open" ELSE link
        start == Deref(T_START, t)
        ok2   == SetActivityOk(lnk1, r2)
    IN  /\ link' = lnk1
        /\ connected' = ok1
        /\ IF ~ok1
           THEN /\ issued' = <<Cmd("connect", NoActivity, FALSE)>>
                /\ spc' = "panicked"
                /\ UNCHANGED <<T_START, now>>
           ELSE /\ issued' = <<Cmd("connect", NoActivity, TRUE),
                               Cmd("set_activity", idle_activity(start.val),
                                   ok2)>>
                /\ T_START' = start
                /\ now' = IF T_START.some THEN now ELSE t
                /\ spc' = IF ok2 THEN spc ELSE "panicked"
        /\ UNCHANGED <<last_update, callsign>>

\* Variant: the link is established and connected set, the Idle payload is
\* not published.
UpdateConnectNoPublish(t, r1, r2) ==
    LET ok1 == ConnectOk(r1)
    IN  /\ link' = IF ok1 THEN "open" ELSE link
        /\ issued' = <<Cmd("connect", NoActivity, ok1)>>
        /\ connected' = (ok1 \/ connected)
        /\ spc' = IF ok1 THEN spc ELSE "panicked"
        /\ UNCHANGED <<last_update, callsign, T_START, now>>

UpdateConnect(t, r1, r2) ==
    LET ok1   == ConnectOk(r1)
        lnk1  == IF ok1 THEN "open" ELSE link
        start == Deref(T_START, t)
        ok2   == SetActivityOk(lnk1, r2)
    IN  /\ link' = lnk1
        /\ IF ~ok1
           THEN /\ issued' = <<Cmd("connect", NoActivity, FALSE)>>
                /\ spc' = "panicked"
                /\ UNCHANGED <<connected, T_START, now>>
           ELSE /\ issued' = <<Cmd("connect", NoActivity, TRUE),
                               Cmd("set_activity", idle_activity(start.val),
                                   ok2)>>
                /\ T_START' = start
                /\ now' = IF T_START.some THEN now ELSE t
                /\ IF ok2
                   THEN connected' = TRUE /\ spc' = spc
                   ELSE connected' = connected /\ spc' = "panicked"
        /\ UNCHANGED <<last_update, callsign>>

\* Variant: a change of callsign also stamps the update time.
UpdateCallsignChangedStamps(text) ==
    /\ callsign' = NormalizeCallsign(text)
    /\ issued' = <<>>
    /\ last_update' = Some(now)
    /\ UNCHANGED <<connected, link, T_START, spc, now>>

UpdateCallsignChanged(text) ==
    /\ callsign' = NormalizeCallsign(text)
    /\ issued' = <<>>
    /\ UNCHANGED <<connected, last_update, link, T_START, spc, now>>

UpdateTelemetryReceived(telem, t, r) ==
    LET start == Deref(T_START, t)
        ok    == SetActivityOk(link, r)
    IN  /\ last_update' = Some(t)
        /\ now' = t
        /\ T_START' = start
        /\ issued' = <<Cmd("set_activity",
                           telem_activity(callsign, telem, start.val), ok)>>
        /\ spc' = IF ok THEN spc ELSE "panicked"
        /\ UNCHANGED <<connected, callsign, link>>

\* Variant: a clean disconnect of the simulator is taken for the loss of
\* the publishing link.
UpdateClientDisconnectedClears(t, r) ==
    LET start == Deref(T_START, t)
        ok    == SetActivityOk(link, r)
    IN  /\ last_update' = Some(t)
        /\ now' = t
        /\ T_START' = start
        /\ issued' = <<Cmd("set_activity", idle_activity(start.val), ok)>>
        /\ spc' = IF ok THEN spc ELSE "panicked"
        /\ connected' = FALSE
        /\ UNCHANGED <<callsign, link>>

UpdateClientDisconnected(t, r) ==
    LET start == Deref(T_START, t)
        ok    == SetActivityOk(link, r)
    IN  /\ last_update' = Some(t)
        /\ now' = t
        /\ T_START' = start
        /\ issued' = <<Cmd("set_activity", idle_activity(start.val), ok)>>
        /\ spc' = IF ok THEN spc ELSE "panicked"
        /\ UNCHANGED <<connected, callsign, link>>

UpdateCloseRequested(r) ==
    LET ok == CloseOk(link, r)
    IN  /\ issued' = <<Cmd("close", NoActivity, ok)>>
        /\ link' = IF ok THEN "closed" ELSE link
        /\ spc' = IF ok THEN spc ELSE "panicked"
        /\ UNCHANGED <<connected, last_update, callsign, T_START, now>>

\* t is the clock's reading during the call, r1 and r2 the outcomes the
\* environment allows to the first and second drpc call.
update(message, t, r1, r2) ==
    /\ lastMsg' = message
    /\ CASE message.type = "Connect" -> UpdateConnect(t, r1, r2)
         [] message.type = "CallsignChanged" ->
                UpdateCallsignChanged(message.text)
         [] message.type = "TelemetryReceived" ->
                UpdateTelemetryReceived(message.telem, t, r1)
         [] message.type = "ClientDisconnected" ->
                UpdateClientDisconnected(t, r1)
         [] message.type = "CloseRequested" -> UpdateCloseRequested(r1)

(***************************************************************************)
(* The runtime: what it hands to State::update, and from where             *)
(***************************************************************************)
\* run_with(.. Task::done(Message::Connect)): once.
DeliverConnect ==
    /\ spc = "run"
    /\ ~connectSent
    /\ connectSent' = TRUE
    /\ \E t \in ClockReadings, r1, r2 \in BOOLEAN :
          update(Connect, t, r1, r2)
    /\ UNCHANGED <<closeSent, lastSeq, lsVars, chan>>

\* text_input(..).on_input(Message::CallsignChanged) and the "X" button,
\* while the window is there.
DeliverCallsignChanged ==
    /\ spc = "run"
    /\ ~closeSent
    /\ \E text \in CallsignTexts :
          update(CallsignChanged(text), now, TRUE, TRUE)
    /\ UNCHANGED <<connectSent, closeSent, lastSeq, lsVars, chan>>

\* window::close_events().map(|_| Message::CloseRequested)
DeliverCloseRequested ==
    /\ spc = "run"
    /\ ~closeSent
    /\ closeSent' = TRUE
    /\ \E r \in BOOLEAN : update(CloseRequested, now, r, TRUE)
    /\ UNCHANGED <<connectSent, lastSeq, lsVars, chan>>

\* The channel is a queue: the receiver takes the oldest message and the
\* sender adds behind the newest.
\* Variant: the receiver takes the newest message.
DequeueNewest(q) == [item |-> q[Len(q)], rest |-> SubSeq(q, 1, Len(q) - 1)]

Dequeue(q) == [item |-> Head(q), rest |-> Tail(q)]

\* Variant: a message offered while others wait is discarded.
EnqueueOrDiscard(q, item) == IF Len(q) >= 2 THEN q ELSE Append(q, item)

Enqueue(q, item) == Append(q, item)

\* Subscription::run(Self::socket_listener): the next message of the
\* listener's stream.
DeliverListener ==
    /\ spc = "run"
    /\ chan # <<>>
    /\ LET d == Dequeue(chan)
       IN  /\ chan' = d.rest
           /\ lastSeq' = d.item.seq
           /\ \E t \in ClockReadings, r \in BOOLEAN :
                 update(d.item.msg, t, r, TRUE)
    /\ UNCHANGED <<connectSent, closeSent, lsVars>>

(***************************************************************************)
(* State::socket_listener                                                  *)
(***************************************************************************)
\* UdpSocket::bind("0.0.0.0:14242").await.unwrap()
ListenerBind ==
    /\ spc = "run"
    /\ lpc = "bind"
    /\ \E ok \in BOOLEAN : lpc' = IF ok THEN "recv" ELSE "panicked"
    /\ UNCHANGED <<smVars, pending, nRecv, lastDgram, emitted, chan>>

\* One pass of the loop up to the send: receive a datagram and decode it.
\* recv_from itself is taken to succeed.  A panic unwinds the listener's
\* task only: the application and State::update go on without it.
Recv(payloads, limit) ==
    /\ spc = "run"
    /\ lpc = "recv"
    /\ nRecv < limit
    /\ \E bytes \in payloads :
          LET out == Decoded[bytes]
          IN  /\ lastDgram' = bytes
              /\ pending' = out.msg
              /\ lpc' = CASE out.kind = "emit" -> "send"
                          [] out.kind = "ignore" -> "recv"
                          [] out.kind = "panic" -> "panicked"
    /\ nRecv' = nRecv + 1
    /\ emitted' = <<>>
    /\ UNCHANGED <<smVars, chan>>

ListenerRecv == Recv(Datagrams, MaxDatagrams)

\* Samples of an aircraft slowing down through the threshold.
SpeedRecv == Recv(SpeedDatagrams, MaxDatagrams)

\* The simulator stops and starts again and again: a burst of "bye".
BurstRecv == Recv({"bye"}, MaxBurst)

\* sender.send(..).await: waits while the channel is full (its buffer and
\* the sender's own slot), then adds the message.
ListenerSend ==
    /\ spc = "run"
    /\ lpc = "send"
    /\ Len(chan) < ChannelBuffer + 1
    /\ chan' = Enqueue(chan, [seq |-> nRecv, msg |-> pending])
    /\ emitted' = Append(emitted, pending)
    /\ pending' = NoMessage
    /\ lpc' = "recv"
    /\ UNCHANGED <<smVars, nRecv, lastDgram>>

Next ==
    \/ DeliverConnect
    \/ DeliverCallsignChanged
    \/ DeliverCloseRequested
    \/ DeliverListener
    \/ ListenerBind
    \/ ListenerRecv
    \/ ListenerSend

Spec == Init /\ [][Next]_vars

\* The listener under a burst of datagrams, the application consuming at
\* its own pace.
BurstNext ==
    \/ DeliverConnect
    \/ DeliverListener
    \/ ListenerBind
    \/ BurstRecv
    \/ ListenerSend

BurstSpec == Init /\ [][BurstNext]_vars

\* The listener and the application fed with samples around the speed
\* threshold.
SpeedNext ==
    \/ DeliverConnect
    \/ DeliverListener
    \/ ListenerBind
    \/ SpeedRecv
    \/ ListenerSend

SpeedSpec == Init /\ [][SpeedNext]_vars

(***************************************************************************)
(* Properties                                                              *)
(***************************************************************************)
\* The line of a payload is a "telem " line with fewer than five fields or
\* with a third, fourth or fifth field that is no number.
IsMalformedTelemLine(bytes) ==
    /\ Utf8Valid(bytes)
    /\ Len(bytes) >= 6
    /\ SubSeq(bytes, 1, 6) = "telem "
    /\ LET parts == Split(SubSeq(bytes, 7, Len(bytes)), ",")
       IN  \/ Len(parts) < 5
           \/ ~ParseF64(parts[3]).some
           \/ ~ParseF64(parts[4]).some
           \/ ~ParseU64(parts[5]).some

\* The listener is between datagrams, having sent nothing for the latest.
DiscardedAndListening ==
    lpc = "recv" /\ emitted = <<>> /\ pending = NoMessage

\* C1: a malformed "telem" datagram gives no event and leaves the listener
\* receiving, so that later datagrams are still decoded.
C1_MalformedTelemDiscarded ==
    (nRecv > 0 /\ IsMalformedTelemLine(lastDgram)) => DiscardedAndListening

\* C2: a datagram that is not UTF-8 is discarded without a panic: no event,
\* and the listener goes on receiving.
C2_NonUtf8Discarded ==
    (nRecv > 0 /\ ~Utf8Valid(lastDgram)) =>
        (lpc # "panicked" /\ emitted = <<>>)

\* C3: for the datagram "bye" the listener sends exactly one
\* ClientDisconnected, no TelemetryReceived, and is then receiving again.
C3_ByeEmitsOneDisconnected ==
    lastDgram = "bye" =>
        \/ lpc = "send" /\ pending = ClientDisconnected /\ emitted = <<>>
        \/ lpc = "recv" /\ pending = NoMessage
                        /\ emitted = <<ClientDisconnected>>

C3_Witness ==
    /\ lastDgram = "bye"
    /\ lpc = "recv"
    /\ emitted = <<ClientDisconnected>>
    /\ \E i \in DOMAIN chan : chan[i] = [seq |-> nRecv,
                                         msg |-> ClientDisconnected]

\* C4: for a line "telem <name>,<vehicle>,<ias>,<alt_bar>,<sim_time>" whose
\* five fields are well formed the listener sends exactly one
\* TelemetryReceived whose fields are the five tokens' values, in order.
C4_TelemRoundTrip ==
    \A tm \in HookSamples :
        lastDgram = FormatTelem(tm) =>
            \/ lpc = "send" /\ pending = TelemetryReceived(tm)
                            /\ emitted = <<>>
            \/ lpc = "recv" /\ pending = NoMessage
                            /\ emitted = <<TelemetryReceived(tm)>>

C4_Witness ==
    \E tm \in HookSamples :
        /\ lastDgram = FormatTelem(tm)
        /\ tm.ias % Scale # 0
        /\ lpc = "recv"
        /\ emitted = <<TelemetryReceived(tm)>>

\* C5: listener messages are handled in the order their datagrams arrived:
\* each one handled arrived after the one handled before it and before
\* every one still waiting.
C5_HandledInArrivalOrder ==
    [][lastSeq' # lastSeq =>
          /\ lastSeq' > lastSeq
          /\ \A i \in DOMAIN chan' : chan'[i].seq > lastSeq']_vars

C5_Witness ==
    /\ lastSeq = 3
    /\ lastMsg.type = "CallsignChanged"
    /\ last_update.some

\* C6: once CloseRequested has been handled and the link is closed, no
\* message is handled and no drpc call is made.
C6_CloseIsTerminal ==
    [][(closeSent /\ link = "closed") =>
          (lastMsg' = lastMsg /\ issued' = issued /\ lastSeq' = lastSeq)]_vars

\* C7: a drpc call that fails is the last call of its update (no retry, no
\* further call), the updating thread is then stopped for good, and a
\* failure while handling Connect leaves connected false.
C7_FailureIsUnrecoverable ==
    /\ [](\A i \in DOMAIN issued :
            ~issued[i].ok =>
                /\ i = Len(issued)
                /\ spc = "panicked"
                /\ lastMsg = Connect => ~connected)
    /\ [][spc = "panicked" => UNCHANGED vars]_vars

C7_Witness ==
    /\ spc = "panicked"
    /\ lastMsg = Connect
    /\ Len(issued) = 2
    /\ issued[1].ok
    /\ ~issued[2].ok
    /\ ~connected

\* C8: Connect handled from the initial state calls connect, then publishes
\* the Idle payload ("Mission planning"), and ends with connected true;
\* last_update and callsign stay as they were.
C8_ConnectFromInitial ==
    [][(/\ ~connectSent /\ connectSent'
        /\ ~connected /\ ~last_update.some /\ ~callsign.some
        /\ spc' = "run") =>
          /\ Len(issued') = 2
          /\ issued'[1] = Cmd("connect", NoActivity, TRUE)
          /\ issued'[2].op = "set_activity"
          /\ issued'[2].ok
          /\ issued'[2].activity.state = Some("Mission planning")
          /\ issued'[2].activity.details = NoneStr
          /\ link' = "open"
          /\ connected'
          /\ last_update' = last_update
          /\ callsign' = callsign]_vars

C8_Witness ==
    /\ lastMsg = Connect
    /\ spc = "run"
    /\ connected
    /\ ~last_update.some
    /\ ~callsign.some
    /\ Len(issued) = 2

\* C9: handling ClientDisconnected, in whatever state, sets last_update,
\* publishes the Idle payload ("Mission planning") and nothing else, and
\* leaves connected, the callsign and the link as they were.
C9_DisconnectedResetsDisplay ==
    [][(lastSeq' # lastSeq /\ lastMsg' = ClientDisconnected) =>
          /\ last_update' = Some(now')
          /\ Len(issued') = 1
          /\ issued'[1].op = "set_activity"
          /\ issued'[1].activity.state = Some("Mission planning")
          /\ issued'[1].activity.details = NoneStr
          /\ issued'[1].ok = (spc' = "run")
          /\ connected' = connected
          /\ callsign' = callsign
          /\ link' = link]_vars

C9_Witness ==
    /\ lastMsg = ClientDisconnected
    /\ lastSeq >= 2
    /\ spc = "run"
    /\ connected
    /\ callsign.some
    /\ issued[1].ok

\* C10: after CallsignChanged("") the callsign is None, whatever it was and
\* however often the message is repeated; after CallsignChanged(t) with t
\* not empty it is Some(t).
C10_CallsignNormalized ==
    lastMsg.type = "CallsignChanged" =>
        /\ lastMsg.text = "" => ~callsign.some
        /\ lastMsg.text # "" => callsign = Some(lastMsg.text)

C10_Witness ==
    /\ lastMsg = CallsignChanged("")
    /\ ~callsign.some
    /\ connected

\* C11: handling CallsignChanged makes no drpc call and leaves connected,
\* last_update and the link as they were; of State only callsign changes.
C11_CallsignChangedFrame ==
    [][lastMsg'.type = "CallsignChanged" =>
          /\ issued' = <<>>
          /\ connected' = connected
          /\ last_update' = last_update
          /\ link' = link]_vars

C11_Witness ==
    /\ lastMsg = CallsignChanged("Viper")
    /\ callsign = Some("Viper")
    /\ connected
    /\ last_update.some
    /\ issued = <<>>

C13_ConnectedIffLinkOpen ==
    spc = "run" => (connected <=> link = "open")

IsOtherLine(bytes) ==
    /\ Utf8Valid(bytes)
    /\ bytes # "bye"
    /\ ~(Len(bytes) >= 6 /\ SubSeq(bytes, 1, 6) = "telem ")

\* C15: a line with no space (other than "bye") or with a first token other
\* than "telem" gives no event, changes nothing of State or of the channel,
\* and leaves the listener receiving, able to take the next datagram.
C15_OtherLineDiscarded ==
    /\ []((nRecv > 0 /\ IsOtherLine(lastDgram)) => DiscardedAndListening)
    /\ [][(nRecv' = nRecv + 1 /\ IsOtherLine(lastDgram')) =>
             UNCHANGED <<connected, last_update, callsign, link, chan>>]_vars
    /\ []((nRecv > 0 /\ nRecv < MaxDatagrams /\ IsOtherLine(lastDgram)
           /\ spc = "run") => ENABLED ListenerRecv)

C15_Witness ==
    /\ lastDgram = "hello"
    /\ nRecv = 2
    /\ lpc = "recv"
    /\ emitted = <<>>
    /\ connected
    /\ spc = "run"

\* C16: once the bind of the UDP port has failed the application does not
\* proceed: no message is handled after it, Connect included, connected
\* does not become true and no payload is published.
C16_BindFailureStopsStartup ==
    [][(lpc = "panicked" /\ nRecv = 0) =>
          /\ connectSent' = connectSent
          /\ connected' = connected
          /\ link' = link
          /\ lastMsg' = lastMsg
          /\ issued' = issued]_vars

\* C17: the speed published for a sample is 0 when its indicated airspeed
\* is at most 10.0, the value 10.0 included, and is the airspeed times
\* 1.994, which is above 0, when the airspeed is above 10.0.
C17_SpeedSuppression ==
    (lastMsg.type = "TelemetryReceived" /\ Len(issued) = 1) =>
        LET ias   == lastMsg.telem.ias
            knots == SplitOnce(issued[1].activity.details.val, " ").cmd
            prod  == MulDiv(ias, 1994, 1000)
        IN  /\ ias <= 10 * Scale => knots = "0"
            /\ ias > 10 * Scale =>
                  (prod > 0 /\ knots = FormatRounded(prod) /\ knots # "0")

C17_Witness ==
    /\ lastMsg.type = "TelemetryReceived"
    /\ lastMsg.telem.ias = 10 * Scale
    /\ Len(issued) = 1
    /\ issued[1].ok
    /\ issued[1].activity.details = Some("0 knots at 0k feet")

\* C18: the headline published for a sample is "flying {vehicle}" when the
\* display name (the callsign if one is set, else the sample's pilot name)
\* equals the literal "New callsign", and "{name} in {vehicle}" otherwise,
\* vehicle being the prettified label.
C18_HeadlineSentinel ==
    (lastMsg.type = "TelemetryReceived" /\ Len(issued) = 1) =>
        LET tm   == lastMsg.telem
            name == IF callsign.some THEN callsign.val ELSE tm.name
            vp   == VehiclePretty(tm.vehicle)
        IN  issued[1].activity.state =
                Some(IF name = "New callsign"
                     THEN "flying " \o vp
                     ELSE name \o " in " \o vp)

C18_Witness ==
    /\ lastMsg.type = "TelemetryReceived"
    /\ lastMsg.telem.name = "New callsign"
    /\ callsign = NoneStr
    /\ Len(issued) = 1
    /\ issued[1].ok
    /\ issued[1].activity.state = Some("flying A10-C")

\* C19: every payload published, Idle or Active, carries the one session
\* start: the value captured at its first use, which never changes
\* afterwards whatever message is handled.
C19_OneSessionStart ==
    /\ [](\A i \in 1..Len(issued) :
             issued[i].op = "set_activity" =>
                 (T_START.some /\ issued[i].activity.start = T_START.val))
    /\ [][T_START.some => T_START' = T_START]_vars

C19_Witness ==
    /\ lastMsg.type = "TelemetryReceived"
    /\ Len(issued) = 1
    /\ issued[1].ok
    /\ T_START.some
    /\ now > T_START.val
    /\ last_update = Some(now)
    /\ issued[1].activity.start = T_START.val

\* C20: a message of the listener (a sample or ClientDisconnected) is
\* handled only once Connect has succeeded, and set_activity is issued only
\* while the link is established: whenever State::update takes a message
\* from the listener's stream, connected is true and the link is open.
C20_ListenerHandledOnlyWhenConnected ==
    [][lastSeq' # lastSeq => (connected /\ link = "open")]_vars

====
